---- MODULE Spec2Model ----
(***************************************************************************)
(* Heat Relief Network data pipeline (src/run_pipeline.py).                *)
(*                                                                         *)
(* One run of main() is: fetch metadata and records, split, clean_data,    *)
(* geocode_addresses, apply_updates, filter_accepted_only, save_files.     *)
(* The files data/public/sites.csv, data/archives/sites_<day>.csv and      *)
(* data/public/summary.txt persist between runs; sites.csv of one run is   *)
(* the geocoding cache of the next.                                        *)
(*                                                                         *)
(* Encoding of pandas / Python values:                                     *)
(*   - a missing number (NaN / None) is NaN, a missing text is NaNStr,     *)
(*     a missing date is NaNDate;                                          *)
(*   - a text built by an f-string or a join is the sequence of its parts; *)
(*     the empty string '' is <<>> for built texts and "" for raw ones;    *)
(*   - a date is <<year, month, day>>.                                     *)
(***************************************************************************)
EXTENDS Integers, Sequences, FiniteSets, TLC

\* ------------------------------------------------------------------ bounds
MaxSites == 1
MaxRuns == 3
MaxRows == 2
MaxUpdates == 2

\* --------------------------------------------------------- missing values
NaN == -1
Unparseable == -2
NaNStr == "<NA>"
NaNDate == <<>>

\* ------------------------------------------------------ program constants
day_names == <<"Monday", "Tuesday", "Wednesday", "Thursday", "Friday", "Saturday", "Sunday">>
NumClosures == 10
HolidayYear == 2026
ClosedCode == 2
DefaultStatusCode == 1

DayIdx == 1..Len(day_names)
ClosureIdx == 1..NumClosures
RecordIds == 1..MaxSites

\* ---------------------------------------------------------- generic helpers
RECURSIVE SeqFilter(_, _)
\* the elements of s whose index is in keep, in order
SeqFilter(s, keep) ==
    IF s = <<>> THEN <<>>
    ELSE LET rest == SeqFilter(SubSeq(s, 1, Len(s) - 1), keep)
         IN IF Len(s) \in keep THEN Append(rest, s[Len(s)]) ELSE rest

Range(s) == {s[i] : i \in DOMAIN s}

\* pd.isna / pd.notna on a number
notna(v) == v # NaN

\* str(x) of a raw text cell: a missing cell prints as 'nan'
StrOf(v) == IF v = NaNStr THEN "nan" ELSE v

\* Python truthiness of a numeric cell: only 0 is falsy (NaN is truthy)
Truthy(v) == v # 0

\* ------------------------------------------------------------ schema mapper
\* parse_choices: the choice specification is a sequence of <<code, label>>
\* entries; a later entry with the same code replaces an earlier one.
RECURSIVE parse_choices(_)
parse_choices(spec) ==
    IF spec = <<>> THEN <<>>
    ELSE LET n == Len(spec)
             before == parse_choices(SubSeq(spec, 1, n - 1))
             code == spec[n][1]
             kept == SeqFilter(before, {i \in DOMAIN before : before[i][1] # code})
         IN Append(kept, spec[n])

\* dict lookup as Series.map does it: an unmapped key gives a missing value
MapGet(choices, code) ==
    IF \E i \in DOMAIN choices : choices[i][1] = code
    THEN LET i == CHOOSE j \in DOMAIN choices : choices[j][1] = code IN choices[i][2]
    ELSE NaNStr

ServiceSpec == << <<1, "Water">>, <<2, "Pet-Friendly">> >>
StateSpec == << <<1, "AZ">> >>
\* the two schema variants of review_status (code 3 defined or not)
StatusSpecs == { << <<1, "Pending">>, <<2, "Under Review">>, <<3, "Accepted">> >>,
                 << <<1, "Pending">>, <<2, "Under Review">> >> }

build_mappings(statusSpec) ==
    [ state_codes |-> parse_choices(StateSpec),
      review_status |-> parse_choices(statusSpec),
      services_offered |-> parse_choices(ServiceSpec),
      services_offered_update |-> parse_choices(ServiceSpec) ]

\* 'has_' + label.lower().replace(' ', '_').replace('-', '_')
clean_field(label) ==
    CASE label = "Water" -> "has_water"
      [] label = "Pet-Friendly" -> "has_pet_friendly"
      [] OTHER -> "has_other"

\* ------------------------------------------------------------------ helpers
\* datetime(y, m, d).weekday(): Monday = 0 ... Sunday = 6
weekday(y, m, d) ==
    LET t == <<0, 3, 2, 5, 0, 3, 5, 1, 4, 6, 2, 4>>
        yy == IF m < 3 THEN y - 1 ELSE y
        sun0 == (yy + (yy \div 4) - (yy \div 100) + (yy \div 400) + t[m] + d) % 7
    IN (sun0 + 6) % 7

calculate_holidays(year) ==
    LET days_to_subtract == (weekday(year, 5, 31) - 0) % 7
        days_to_add == (0 - weekday(year, 9, 1)) % 7
    IN [ memorial_day |-> <<year, 5, 31 - days_to_subtract>>,
         juneteenth |-> <<year, 6, 19>>,
         independence_day |-> <<year, 7, 4>>,
         labor_day |-> IF days_to_add > 0 THEN <<year, 9, 1 + days_to_add>> ELSE <<year, 9, 1>> ]

\* datetime.strptime(s, '%H:%M') on the raw times of the model; <<>> = ValueError
strptime(s) ==
    CASE s = "08:00" -> <<8, 0>>
      [] s = "17:00" -> <<17, 0>>
      [] s = "00:30" -> <<0, 30>>
      [] OTHER -> <<>>

\* a displayed time: [h, m, ap] for '%-I:%M %p' lower-cased; a text that is
\* passed through unparsed is [h |-> -1, m |-> -1, ap |-> text]
EmptyDisp == [h |-> -1, m |-> -1, ap |-> ""]

convert_to_12hr(time_str) ==
    IF time_str = "" \/ time_str = NaNStr THEN EmptyDisp
    ELSE LET t == strptime(time_str)
         IN IF t = <<>> THEN [h |-> -1, m |-> -1, ap |-> time_str]
            ELSE [ h |-> IF t[1] % 12 = 0 THEN 12 ELSE t[1] % 12,
                   m |-> t[2],
                   ap |-> IF t[1] < 12 THEN "am" ELSE "pm" ]

\* the open days of a dow checkbox vector (a checkbox counts when it is 1)
OpenDays(dow) == SeqFilter(day_names, {i \in DayIdx : dow[i] = 1})

IsOpen(open_days, i) == day_names[i] \in Range(open_days)

\* the '; '-joined parts of the per-day branch, days 1..n
RECURSIVE DayParts(_, _, _, _)
DayParts(open_days, starts, closes, n) ==
    IF n = 0 THEN <<>>
    ELSE LET rest == DayParts(open_days, starts, closes, n - 1)
             o == StrOf(starts[n])
             c == StrOf(closes[n])
         IN IF IsOpen(open_days, n) /\ o # "" /\ c # ""
            THEN Append(rest, [ days |-> <<day_names[n]>>,
                                open |-> convert_to_12hr(o),
                                close |-> convert_to_12hr(c) ])
            ELSE rest

\* the <day>_hours text of the per-day branch
DayHours(open_days, starts, closes, i) ==
    LET o == StrOf(starts[i])
        c == StrOf(closes[i])
    IN IF IsOpen(open_days, i) /\ o # "" /\ c # "" THEN <<o, c>> ELSE <<>>

\* ------------------------------------------------------- clean_data: hours
EmptyLists ==
    [ full_schedules |-> <<>>, days_open_list |-> <<>>,
      opening_times |-> <<>>, closing_times |-> <<>>,
      hours |-> [i \in DayIdx |-> <<>>] ]

\* ScheduleStep whose same-hours branch prefers the per-day cells of an open
\* day when they hold a value
ScheduleStep_ReadsPerDay(L, row) ==
    LET open_days == OpenDays(row.dow)
        L0 == [L EXCEPT !.days_open_list = Append(@, open_days)]
    IN IF Truthy(row.same_hours_everyday)
       THEN LET opening == StrOf(row.standard_start_time)
                closing == StrOf(row.standard_close_time)
                L1 == [L0 EXCEPT !.opening_times = Append(@, opening),
                                 !.closing_times = Append(@, closing)]
                opening_12 == convert_to_12hr(opening)
                closing_12 == convert_to_12hr(closing)
            IN IF opening_12 # EmptyDisp /\ closing_12 # EmptyDisp
               THEN [L1 EXCEPT
                       !.full_schedules = Append(@, <<[ days |-> open_days,
                                                        open |-> opening_12,
                                                        close |-> closing_12 ]>>),
                       !.hours = [i \in DayIdx |->
                                    Append(@[i], IF ~IsOpen(open_days, i) THEN <<>>
                                                 ELSE IF StrOf(row.start[i]) # "nan"
                                                 THEN <<row.start[i], row.close[i]>>
                                                 ELSE <<opening, closing>>)]]
               ELSE [L1 EXCEPT
                       !.full_schedules = Append(@, <<>>),
                       !.opening_times = Append(@, ""),
                       !.closing_times = Append(@, ""),
                       !.hours = [i \in DayIdx |-> Append(@[i], <<>>)]]
       ELSE [L0 EXCEPT
               !.opening_times = Append(@, ""),
               !.closing_times = Append(@, ""),
               !.hours = [i \in DayIdx |->
                            Append(@[i], DayHours(open_days, row.start, row.close, i))],
               !.full_schedules = Append(@, DayParts(open_days, row.start, row.close,
                                                     Len(day_names)))]

\* one iteration of the loop over preseason_df.iterrows()
ScheduleStep(L, row) ==
    LET open_days == OpenDays(row.dow)
        L0 == [L EXCEPT !.days_open_list = Append(@, open_days)]
    IN IF Truthy(row.same_hours_everyday)
       THEN LET opening == StrOf(row.standard_start_time)
                closing == StrOf(row.standard_close_time)
                L1 == [L0 EXCEPT !.opening_times = Append(@, opening),
                                 !.closing_times = Append(@, closing)]
                opening_12 == convert_to_12hr(opening)
                closing_12 == convert_to_12hr(closing)
            IN IF opening_12 # EmptyDisp /\ closing_12 # EmptyDisp
               THEN [L1 EXCEPT
                       !.full_schedules = Append(@, <<[ days |-> open_days,
                                                        open |-> opening_12,
                                                        close |-> closing_12 ]>>),
                       !.hours = [i \in DayIdx |->
                                    Append(@[i], IF IsOpen(open_days, i)
                                                 THEN <<opening, closing>> ELSE <<>>)]]
               ELSE [L1 EXCEPT
                       !.full_schedules = Append(@, <<>>),
                       !.opening_times = Append(@, ""),
                       !.closing_times = Append(@, ""),
                       !.hours = [i \in DayIdx |-> Append(@[i], <<>>)]]
       ELSE [L0 EXCEPT
               !.opening_times = Append(@, ""),
               !.closing_times = Append(@, ""),
               !.hours = [i \in DayIdx |->
                            Append(@[i], DayHours(open_days, row.start, row.close, i))],
               !.full_schedules = Append(@, DayParts(open_days, row.start, row.close,
                                                     Len(day_names)))]

RECURSIVE ScheduleLists(_)
ScheduleLists(rows) ==
    IF rows = <<>> THEN EmptyLists
    ELSE ScheduleStep(ScheduleLists(SubSeq(rows, 1, Len(rows) - 1)), rows[Len(rows)])

\* assigning a list as a column raises ValueError unless it has one entry per row
ListsAligned(L, n) ==
    /\ Len(L.opening_times) = n
    /\ Len(L.closing_times) = n
    /\ Len(L.full_schedules) = n
    /\ Len(L.days_open_list) = n
    /\ \A i \in DayIdx : Len(L.hours[i]) = n

\* ---------------------------------------------------- clean_data: services
\* the has_* flags of one row: every mapped checkbox that is a column of the
\* input sets its flag to bool(value); a later mapping entry overwrites
RECURSIVE ServiceFlags(_, _)
ServiceFlags(svcmap, svc) ==
    IF svcmap = <<>> THEN <<>>
    ELSE LET n == Len(svcmap)
             rest == ServiceFlags(SubSeq(svcmap, 1, n - 1), svc)
             code == svcmap[n][1]
             f == clean_field(svcmap[n][2])
         IN IF code \in DOMAIN svc
            THEN Append(SeqFilter(rest, {i \in DOMAIN rest : rest[i][1] # f}),
                        <<f, Truthy(svc[code])>>)
            ELSE rest

\* the flags as a function clean field -> BOOLEAN
FlagFcn(pairs) ==
    [f \in {pairs[i][1] : i \in DOMAIN pairs} |->
        (CHOOSE i \in DOMAIN pairs : pairs[i][1] = f) \in
            {i \in DOMAIN pairs : pairs[i][2]}]

\* site_services: the labels whose checkbox equals 1, in mapping order
ServiceList(svcmap, svc) ==
    LET keep == {i \in DOMAIN svcmap : svcmap[i][1] \in DOMAIN svc /\ svc[svcmap[i][1]] = 1}
        kept == SeqFilter(svcmap, keep)
    IN [i \in DOMAIN kept |-> kept[i][2]]

\* ---------------------------------------------------- clean_data: closures
ExplicitClosures(closure) ==
    SeqFilter([i \in ClosureIdx |-> closure[i]], {i \in ClosureIdx : closure[i] # NaNDate})

\* RowClosures that takes any answered holiday field as a closure
RowClosures_AnyAnswer(row) ==
    LET holidays == calculate_holidays(HolidayYear)
        c1 == IF notna(row.memorial_day) THEN <<holidays.memorial_day>> ELSE <<>>
        c2 == IF notna(row.juneteenth) THEN <<holidays.juneteenth>> ELSE <<>>
        c3 == IF notna(row.independence_day) \/ notna(row.july_4)
              THEN <<holidays.independence_day>> ELSE <<>>
        c4 == IF notna(row.labor_day) THEN <<holidays.labor_day>> ELSE <<>>
    IN ExplicitClosures(row.closure) \o c1 \o c2 \o c3 \o c4

RowClosures(row) ==
    LET holidays == calculate_holidays(HolidayYear)
        c1 == IF row.memorial_day = ClosedCode THEN <<holidays.memorial_day>> ELSE <<>>
        c2 == IF row.juneteenth = ClosedCode THEN <<holidays.juneteenth>> ELSE <<>>
        c3 == IF row.independence_day = ClosedCode \/ row.july_4 = ClosedCode
              THEN <<holidays.independence_day>> ELSE <<>>
        c4 == IF row.labor_day = ClosedCode THEN <<holidays.labor_day>> ELSE <<>>
    IN ExplicitClosures(row.closure) \o c1 \o c2 \o c3 \o c4

\* ----------------------------------------------------- clean_data: address
\* Series.astype(int) raises on a missing or non-numeric cell
astype_int_ok(v) == v # NaN /\ v # Unparseable

RECURSIVE Digits(_)
Digits(n) == IF n < 10 THEN <<n>> ELSE Append(Digits(n \div 10), n % 10)

RECURSIVE zfill(_, _)
zfill(ds, width) == IF Len(ds) >= width THEN ds ELSE zfill(<<0>> \o ds, width)

ZipCode(site_zip) == zfill(Digits(site_zip), 5)

\* address + ', ' + city + ', ' + state + ' ' + zip_code; missing if a part is
FullAddress(row, state, zip_code) ==
    IF row.site_address = NaNStr \/ row.site_city = NaNStr \/ state = NaNStr
    THEN <<>>
    ELSE <<row.site_address, row.site_city, state, zip_code>>

\* ------------------------------------------------------ clean_data: status
\* preseason_df['review_status'].fillna(1).astype(int).map(mappings['review_status'])
ReviewStatus(code, mappings) ==
    MapGet(mappings.review_status, IF code = NaN THEN DefaultStatusCode ELSE code)

\* ---------------------------------------------------------------- clean_data
\* clean_data raises (and returns nothing) when a column conversion fails
CleanRaises(rows, mappings) ==
    \/ \E i \in DOMAIN rows : ~astype_int_ok(rows[i].site_state)
    \/ \E i \in DOMAIN rows : ~astype_int_ok(rows[i].site_zip)
    \/ \E i \in DOMAIN rows : rows[i].review_status = Unparseable
    \/ ~ListsAligned(ScheduleLists(rows), Len(rows))

\* CleanRow with the holidays of the year the clock shows, not of HolidayYear
CleanRow_HolidaysOfNow(rows, i, L, mappings, now) ==
    LET row == rows[i]
        state == MapGet(mappings.state_codes, row.site_state)
        zip_code == ZipCode(row.site_zip)
        holidays == calculate_holidays(HolidayYear + now)
        c1 == IF row.memorial_day = ClosedCode THEN <<holidays.memorial_day>> ELSE <<>>
        c2 == IF row.juneteenth = ClosedCode THEN <<holidays.juneteenth>> ELSE <<>>
        c3 == IF row.independence_day = ClosedCode \/ row.july_4 = ClosedCode
              THEN <<holidays.independence_day>> ELSE <<>>
        c4 == IF row.labor_day = ClosedCode THEN <<holidays.labor_day>> ELSE <<>>
    IN [ record_id |-> row.record_id,
         address |-> row.site_address,
         city |-> row.site_city,
         state |-> state,
         zip_code |-> zip_code,
         full_address |-> FullAddress(row, state, zip_code),
         latitude |-> NaN,
         longitude |-> NaN,
         geocoded |-> FALSE,
         same_hours_everyday |-> row.same_hours_everyday,
         opening_time |-> L.opening_times[i],
         closing_time |-> L.closing_times[i],
         full_schedule |-> L.full_schedules[i],
         days_open |-> L.days_open_list[i],
         hours |-> [d \in DayIdx |-> L.hours[d][i]],
         has |-> FlagFcn(ServiceFlags(mappings.services_offered, row.svc)),
         services_offered |-> ServiceList(mappings.services_offered, row.svc),
         special_closure_dates |-> ExplicitClosures(row.closure) \o c1 \o c2 \o c3 \o c4,
         review_status |-> ReviewStatus(row.review_status, mappings),
         last_updated |-> now,
         data_source |-> "preseason" ]

CleanRow(rows, i, L, mappings, now) ==
    LET row == rows[i]
        state == MapGet(mappings.state_codes, row.site_state)
        zip_code == ZipCode(row.site_zip)
    IN [ record_id |-> row.record_id,
         address |-> row.site_address,
         city |-> row.site_city,
         state |-> state,
         zip_code |-> zip_code,
         full_address |-> FullAddress(row, state, zip_code),
         latitude |-> NaN,
         longitude |-> NaN,
         geocoded |-> FALSE,
         same_hours_everyday |-> row.same_hours_everyday,
         opening_time |-> L.opening_times[i],
         closing_time |-> L.closing_times[i],
         full_schedule |-> L.full_schedules[i],
         days_open |-> L.days_open_list[i],
         hours |-> [d \in DayIdx |-> L.hours[d][i]],
         has |-> FlagFcn(ServiceFlags(mappings.services_offered, row.svc)),
         services_offered |-> ServiceList(mappings.services_offered, row.svc),
         special_closure_dates |-> RowClosures(row),
         review_status |-> ReviewStatus(row.review_status, mappings),
         last_updated |-> now,
         data_source |-> "preseason" ]

clean_data(rows, mappings, now) ==
    LET L == ScheduleLists(rows)
    IN [i \in DOMAIN rows |-> CleanRow(rows, i, L, mappings, now)]

\* --------------------------------------------------------- geocode_addresses
\* A file on disk: exists, and whether pd.read_csv can parse it (a file that
\* was truncated by a failed write is empty and read_csv raises on it).
NoFile == [exists |-> FALSE, parses |-> FALSE, rows |-> <<>>]
CsvFile(rows) == [exists |-> TRUE, parses |-> TRUE, rows |-> rows]
TruncatedFile == [exists |-> TRUE, parses |-> FALSE, rows |-> <<>>]

\* str(row['record_id'])
str_record_id(r) == Digits(r)

\* previously_geocoded: built from the rows of the previous sites.csv whose
\* latitude is not missing; a later row of the same record_id overwrites
PreviouslyGeocoded(file) ==
    IF ~file.exists \/ ~file.parses THEN <<>>
    ELSE LET rows == file.rows
             hit == {i \in DOMAIN rows : notna(rows[i].latitude)}
             keys == {str_record_id(rows[i].record_id) : i \in hit}
             lastOf(k) == CHOOSE i \in hit :
                             /\ str_record_id(rows[i].record_id) = k
                             /\ \A j \in hit : str_record_id(rows[j].record_id) = k => j <= i
         IN [k \in keys |-> [lat |-> rows[lastOf(k)].latitude,
                             lon |-> rows[lastOf(k)].longitude]]

\* The answers of the geocoding service to one request:
\*   "raise"    the request or response.json() raises
\*   "features" the parsed body, with the coordinates list of features[0]
\*              (features = [] is kind "empty")
AnswerRaise == [kind |-> "raise", coords |-> <<>>]
AnswerEmpty == [kind |-> "empty", coords |-> <<>>]
AnswerCoords(c) == [kind |-> "features", coords |-> c]

\* the body of the try block for one site
ApplyAnswer(site, answer) ==
    IF answer.kind # "features" THEN site
    ELSE LET coords == answer.coords
         IN IF Len(coords) = 0 THEN site
            ELSE IF Len(coords) = 1 THEN [site EXCEPT !.longitude = coords[1]]
            ELSE [site EXCEPT !.longitude = coords[1],
                              !.latitude = coords[2],
                              !.geocoded = TRUE]

\* GeocodeRow without the "Only geocode Accepted sites" test
GeocodeRow_NoStatusCheck(site, cache, answer) ==
    LET record_id == str_record_id(site.record_id)
    IN IF record_id \in DOMAIN cache
       THEN [ site |-> [site EXCEPT !.latitude = cache[record_id].lat,
                                    !.longitude = cache[record_id].lon,
                                    !.geocoded = TRUE],
              requests |-> 0 ]
       ELSE [site |-> ApplyAnswer(site, answer), requests |-> 1]

\* one iteration of the loop over df.iterrows(): the site afterwards and the
\* number of requests.get calls made for it
GeocodeRow(site, cache, answer) ==
    LET record_id == str_record_id(site.record_id)
    IN IF record_id \in DOMAIN cache
       THEN [ site |-> [site EXCEPT !.latitude = cache[record_id].lat,
                                    !.longitude = cache[record_id].lon,
                                    !.geocoded = TRUE],
              requests |-> 0 ]
       ELSE IF site.review_status # "Accepted"
       THEN [site |-> site, requests |-> 0]
       ELSE [site |-> ApplyAnswer(site, answer), requests |-> 1]

\* geocode_addresses: the table after the call and the requests issued per row
geocode_addresses(df, token, file, answers) ==
    IF ~token THEN [df |-> df, requests |-> [i \in DOMAIN df |-> 0]]
    ELSE LET cache == PreviouslyGeocoded(file)
             out == [i \in DOMAIN df |-> GeocodeRow(df[i], cache, answers[i])]
         IN [ df |-> [i \in DOMAIN df |-> out[i].site],
              requests |-> [i \in DOMAIN df |-> out[i].requests] ]

\* ------------------------------------------------------------- apply_updates
\* updates_df.sort_values('update_date'): ord is the permutation of the rows
\* in non-decreasing update_date, missing dates last.  The default sort kind
\* (quicksort) is not stable: which of two rows with equal dates comes last is
\* fixed by the numpy build, not by the program.  ties is that choice:
\* "input" keeps equal dates in input order, "reverse" reverses them.
TieOrders == {"input", "reverse"}

DateKey(d) == IF d = NaN THEN 1000000 ELSE d

IsSortOrder(updates, ord, ties) ==
    /\ DOMAIN ord = DOMAIN updates
    /\ Range(ord) = DOMAIN updates
    /\ \A i, j \in DOMAIN ord :
          i < j =>
             LET di == DateKey(updates[ord[i]].update_date)
                 dj == DateKey(updates[ord[j]].update_date)
             IN \/ di < dj
                \/ di = dj /\ (IF ties = "input" THEN ord[i] < ord[j] ELSE ord[i] > ord[j])

SortOrder(updates, ties) ==
    CHOOSE ord \in [DOMAIN updates -> DOMAIN updates] : IsSortOrder(updates, ord, ties)

\* groupby('record_id').last(): per column, the last value of the group that
\* is not missing (missing when the whole group misses it)
RECURSIVE LastValid(_, _)
LastValid(vals, missing) ==
    IF vals = <<>> THEN missing
    ELSE IF vals[Len(vals)] # missing THEN vals[Len(vals)]
    ELSE LastValid(SubSeq(vals, 1, Len(vals) - 1), missing)

GroupLast(updates, ord, rid) ==
    LET sorted == [i \in DOMAIN ord |-> updates[ord[i]]]
        grp == SeqFilter(sorted, {i \in DOMAIN sorted : sorted[i].record_id = rid})
        col(f(_), missing) == LastValid([i \in DOMAIN grp |-> f(grp[i])], missing)
        Date(u) == u.update_date
        Same(u) == u.same_hours_everyday_update
        Start(u) == u.standard_start_time_update
        Close(u) == u.standard_close_time_update
        Other(u) == u.other_closures_updates
    IN [ record_id |-> rid,
         update_date |-> col(Date, NaN),
         same_hours_everyday_update |-> col(Same, NaN),
         dow_update |-> [d \in DayIdx |->
               LastValid([i \in DOMAIN grp |-> grp[i].dow_update[d]], NaN)],
         standard_start_time_update |-> col(Start, NaNStr),
         standard_close_time_update |-> col(Close, NaNStr),
         start_update |-> [d \in DayIdx |->
               LastValid([i \in DOMAIN grp |-> grp[i].start_update[d]], NaNStr)],
         close_update |-> [d \in DayIdx |->
               LastValid([i \in DOMAIN grp |-> grp[i].close_update[d]], NaNStr)],
         svc_update |-> [c \in DOMAIN grp[1].svc_update |->
               LastValid([i \in DOMAIN grp |-> grp[i].svc_update[c]], NaN)],
         other_closures_updates |-> col(Other, NaN),
         closure_update |-> [c \in ClosureIdx |->
               LastValid([i \in DOMAIN grp |-> grp[i].closure_update[c]], NaNDate)] ]

\* "Update hours if provided": the schedule block for one matched site; the
\* second component tells whether it set site_updated
UpdateHours(site, update) ==
    LET same_hours_update == update.same_hours_everyday_update
        open_days == OpenDays(update.dow_update)
        s0 == [site EXCEPT !.same_hours_everyday = same_hours_update,
                           !.days_open = open_days]
    IN IF ~notna(same_hours_update) THEN <<site, FALSE>>
       ELSE IF Truthy(same_hours_update)
       THEN LET opening == StrOf(update.standard_start_time_update)
                closing == StrOf(update.standard_close_time_update)
                s1 == [s0 EXCEPT !.opening_time = opening, !.closing_time = closing]
                opening_12 == convert_to_12hr(opening)
                closing_12 == convert_to_12hr(closing)
            IN IF opening_12 # EmptyDisp /\ closing_12 # EmptyDisp
               THEN << [s1 EXCEPT
                          !.full_schedule = <<[ days |-> open_days,
                                                open |-> opening_12,
                                                close |-> closing_12 ]>>,
                          !.hours = [d \in DayIdx |->
                                       IF IsOpen(open_days, d)
                                       THEN <<opening, closing>> ELSE <<>>]],
                       TRUE >>
               ELSE <<s1, FALSE>>
       ELSE << [s0 EXCEPT
                  !.opening_time = "",
                  !.closing_time = "",
                  !.hours = [d \in DayIdx |->
                               DayHours(open_days, update.start_update,
                                        update.close_update, d)],
                  !.full_schedule = DayParts(open_days, update.start_update,
                                             update.close_update, Len(day_names))],
               TRUE >>

\* "Update services if provided": every mapped update checkbox that is a
\* column of updates_df writes its flag; services_offered is rewritten only
\* when some checkbox is 1
RECURSIVE UpdateFlags(_, _, _)
UpdateFlags(has, svcmap, svc) ==
    IF svcmap = <<>> THEN has
    ELSE LET n == Len(svcmap)
             before == UpdateFlags(has, SubSeq(svcmap, 1, n - 1), svc)
             code == svcmap[n][1]
             f == clean_field(svcmap[n][2])
         IN IF code \in DOMAIN svc
            THEN [g \in (DOMAIN before) \cup {f} |->
                    IF g = f THEN svc[code] = 1 ELSE before[g]]
            ELSE before

UpdateServices(site, update, mappings) ==
    LET svcmap == mappings.services_offered_update
        site_services == ServiceList(svcmap, update.svc_update)
        s0 == [site EXCEPT !.has = UpdateFlags(@, svcmap, update.svc_update)]
    IN IF site_services # <<>>
       THEN <<[s0 EXCEPT !.services_offered = site_services], TRUE>>
       ELSE <<s0, FALSE>>

\* "Update closures if provided"
UpdateClosures(site, update) ==
    IF notna(update.other_closures_updates)
    THEN <<[site EXCEPT !.special_closure_dates = ExplicitClosures(update.closure_update)],
           TRUE>>
    ELSE <<site, FALSE>>

\* ApplyUpdate that replaces the preseason record completely: an updated site
\* loses its coordinates
ApplyUpdate_DropsCoordinates(site, update, mappings, now) ==
    LET h == UpdateHours(site, update)
        v == UpdateServices(h[1], update, mappings)
        c == UpdateClosures(v[1], update)
        site_updated == h[2] \/ v[2] \/ c[2]
    IN IF site_updated
       THEN [c[1] EXCEPT !.last_updated = now, !.data_source = "in-season update",
                         !.latitude = NaN, !.longitude = NaN, !.geocoded = FALSE]
       ELSE c[1]

\* the body of the loop over latest_updates for the matched row
ApplyUpdate(site, update, mappings, now) ==
    LET h == UpdateHours(site, update)
        v == UpdateServices(h[1], update, mappings)
        c == UpdateClosures(v[1], update)
        site_updated == h[2] \/ v[2] \/ c[2]
    IN IF site_updated
       THEN [c[1] EXCEPT !.last_updated = now, !.data_source = "in-season update"]
       ELSE c[1]

\* pd.to_datetime raises on a date it cannot parse
UpdatesRaise(updates) == \E i \in DOMAIN updates : updates[i].update_date = Unparseable

\* the first row of clean_df whose record_id equals rid (0: no row matches)
FirstMatch(clean_df, rid) ==
    IF \E i \in DOMAIN clean_df : clean_df[i].record_id = rid
    THEN CHOOSE i \in DOMAIN clean_df :
            /\ clean_df[i].record_id = rid
            /\ \A j \in DOMAIN clean_df : clean_df[j].record_id = rid => i <= j
    ELSE 0

\* the keys of groupby('record_id') in ascending order (a missing key forms no group)
RECURSIVE SortedKeys(_)
SortedKeys(S) ==
    IF S = {} THEN <<>>
    ELSE LET m == CHOOSE x \in S : \A y \in S : x <= y
         IN <<m>> \o SortedKeys(S \ {m})

\* ApplyGroup without the "if not mask.any(): continue" test: the update lands
\* on the first row of the table
ApplyGroup_NoMaskTest(clean_df, record_id, update, mappings, now) ==
    LET m == FirstMatch(clean_df, record_id)
        idx == IF m = 0 THEN 1 ELSE m
    IN [clean_df EXCEPT ![idx] = ApplyUpdate(clean_df[idx], update, mappings, now)]

\* one iteration of the loop over latest_updates.iterrows()
ApplyGroup(clean_df, record_id, update, mappings, now) ==
    LET idx == FirstMatch(clean_df, record_id)
    IN IF idx = 0 THEN clean_df
       ELSE [clean_df EXCEPT ![idx] = ApplyUpdate(clean_df[idx], update, mappings, now)]

\* the loop over the groups keys, in order
RECURSIVE ApplyGroups(_, _, _, _, _, _)
ApplyGroups(clean_df, updates, ord, keys, mappings, now) ==
    IF keys = <<>> THEN clean_df
    ELSE LET n == Len(keys)
             done == ApplyGroups(clean_df, updates, ord, SubSeq(keys, 1, n - 1),
                                 mappings, now)
         IN ApplyGroup(done, keys[n], GroupLast(updates, ord, keys[n]), mappings, now)

\* apply_updates on a build that sorts equal dates as ties says
apply_updates(clean_df, updates, mappings, now, ties) ==
    IF updates = <<>> THEN clean_df
    ELSE LET ord == SortOrder(updates, ties)
             rids == {updates[i].record_id : i \in DOMAIN updates} \ {NaN}
         IN ApplyGroups(clean_df, updates, ord, SortedKeys(rids), mappings, now)

\* ------------------------------------------------------ filter_accepted_only
\* filter_accepted_only that drops the Pending records only
filter_accepted_only_NotPending(df) ==
    SeqFilter(df, {i \in DOMAIN df : df[i].review_status # "Pending"})

filter_accepted_only(df) ==
    SeqFilter(df, {i \in DOMAIN df : df[i].review_status = "Accepted"})

\* ------------------------------------------------------------------ save_files
\* the text of summary.txt: update time, len(df), df['geocoded'].sum()
SummaryOf(df, now) ==
    [ exists |-> TRUE, updated |-> now, total |-> Len(df),
      geocoded |-> Cardinality({i \in DOMAIN df : df[i].geocoded}) ]
NoSummary == [exists |-> FALSE, updated |-> 0, total |-> 0, geocoded |-> 0]
TruncatedSummary == [exists |-> TRUE, updated |-> 0, total |-> 0, geocoded |-> 0]

\* The three files after save_files when the step failAt raises ("none": no
\* step raises).  A write that raises either failed before the file was opened
\* (the file keeps its content) or after (the file is left truncated).
SavePoints == {"none", "makedirs", "csv", "archive", "summary"}

save_files(df, now, old, failAt, truncated) ==
    LET reached(step) ==
            CASE step = "csv" -> failAt \in {"none", "archive", "summary"}
              [] step = "archive" -> failAt \in {"none", "summary"}
              [] step = "summary" -> failAt = "none"
    IN [ sites |-> IF reached("csv") THEN CsvFile(df)
                   ELSE IF failAt = "csv" /\ truncated THEN TruncatedFile
                   ELSE old.sites,
         archive |-> IF reached("archive") THEN CsvFile(df)
                     ELSE IF failAt = "archive" /\ truncated THEN TruncatedFile
                     ELSE old.archive,
         summary |-> IF reached("summary") THEN SummaryOf(df, now)
                     ELSE IF failAt = "summary" /\ truncated THEN TruncatedSummary
                     ELSE old.summary ]

\* ------------------------------------------------------------- sample inputs
DowOf(S) == [d \in DayIdx |-> IF d \in S THEN 1 ELSE 0]
NoTimes == [d \in DayIdx |-> NaNStr]
NoDates == [c \in ClosureIdx |-> NaNDate]
Dates(ds) == [c \in ClosureIdx |-> IF c <= Len(ds) THEN ds[c] ELSE NaNDate]

\* a schedule as entered on the form
Sched(same, days, sst, sct, start, close) ==
    [same |-> same, dow |-> DowOf(days), sst |-> sst, sct |-> sct,
     start |-> start, close |-> close]

SameHoursSched == Sched(1, {1, 3}, "08:00", "17:00", NoTimes, NoTimes)

\* the holiday answers and closure dates of a row
Clos(dates, memorial, june, indep, july4, labor) ==
    [closure |-> Dates(dates), memorial_day |-> memorial, juneteenth |-> june,
     independence_day |-> indep, july_4 |-> july4, labor_day |-> labor]

NoClosures == Clos(<<>>, NaN, NaN, NaN, NaN, NaN)

BaseRow(rid, status, addr, state, zip, sched, svc, clos) ==
    [ record_id |-> rid,
      review_status |-> status,
      site_address |-> addr,
      site_city |-> "Phoenix",
      site_state |-> state,
      site_zip |-> zip,
      same_hours_everyday |-> sched.same,
      dow |-> sched.dow,
      standard_start_time |-> sched.sst,
      standard_close_time |-> sched.sct,
      start |-> sched.start,
      close |-> sched.close,
      svc |-> svc,
      closure |-> clos.closure,
      memorial_day |-> clos.memorial_day,
      juneteenth |-> clos.juneteenth,
      independence_day |-> clos.independence_day,
      july_4 |-> clos.july_4,
      labor_day |-> clos.labor_day ]

Svc(a, b) == (1 :> a) @@ (2 :> b)

Override(rid, date, sched, svc, other, dates) ==
    [ record_id |-> rid,
      update_date |-> date,
      same_hours_everyday_update |-> sched.same,
      dow_update |-> sched.dow,
      standard_start_time_update |-> sched.sst,
      standard_close_time_update |-> sched.sct,
      start_update |-> sched.start,
      close_update |-> sched.close,
      svc_update |-> svc,
      other_closures_updates |-> other,
      closure_update |-> Dates(dates) ]

\* an override row that leaves the schedule block empty
NoSched == [same |-> NaN, dow |-> [d \in DayIdx |-> 0], sst |-> NaNStr, sct |-> NaNStr,
            start |-> NoTimes, close |-> NoTimes]

\* ------------------------------------------------------------------- state
VARIABLES
    pc,         \* position of main(): "idle" between runs, else the last step done
    run,        \* number of runs started
    outcome,    \* of the last run: "none", "complete", "failed"
    mappings,   \* build_mappings(metadata) of this run
    preseason,  \* base rows of the last successful fetch
    updates,    \* override rows of this run
    df,         \* the in-memory table
    df_in,      \* the table as the last step received it
    token,      \* whether MAPBOX_API_TOKEN was set when geocode_addresses ran
    requests,   \* geocoding requests issued per row by the last geocode_addresses
    answers,    \* what the geocoder answered per row in that call
    sites_csv,  \* data/public/sites.csv
    archive,    \* data/archives/sites_<today>.csv
    summary,    \* data/public/summary.txt
    before,     \* the three files when the run started
    tie_order,  \* how this build's sort orders rows with equal update_date
    reqRuns,    \* per record_id: the number of runs that requested the geocoder
    stable      \* per record_id: review_status and address never changed so far

vars == <<pc, run, outcome, mappings, preseason, updates, df, df_in, token, requests,
          answers, sites_csv, archive, summary, before, tie_order, reqRuns, stable>>

Files == [sites |-> sites_csv, archive |-> archive, summary |-> summary]

\* datetime.now() at the three places a run reads the clock
NowClean == 3 * run - 2
NowUpdate == 3 * run - 1
NowSave == 3 * run

\* ------------------------------------------------- inputs of the pipeline runs
FullStatusSpec == << <<1, "Pending">>, <<2, "Under Review">>, <<3, "Accepted">> >>
Addresses == {"12 Elm St", "9 Oak Ave"}

PipelineRow(rid) ==
    { BaseRow(rid, status, addr, 1, zip, SameHoursSched, Svc(1, 0), NoClosures) :
        status \in {1, 3}, addr \in Addresses, zip \in {85001, NaN} }

PipelineRows ==
    {rows \in [RecordIds -> UNION {PipelineRow(r) : r \in RecordIds}] :
        \A r \in RecordIds : rows[r] \in PipelineRow(r)}

PipelineUpdates ==
    { <<>>,
      <<Override(1, 1, NoSched, Svc(0, 0), 1, << <<2026, 7, 1>> >>)>>,
      <<Override(1, Unparseable, NoSched, Svc(0, 0), NaN, <<>>)>> }

\* what the geocoder may answer for a site: the location of the address, or
\* one of the failures
GeoLoc(site) == IF site.address = "12 Elm St" THEN <<1, 2>> ELSE <<3, 4>>

Answers(site) ==
    LET loc == GeoLoc(site)
    IN {AnswerRaise, AnswerEmpty} \cup
       {AnswerCoords(c) : c \in {<<>>, <<loc[1]>>, loc, <<NaN, loc[2]>>, <<loc[1], NaN>>}}

\* the status and address clean_data derives from a base row
Identity(row, m) ==
    << ReviewStatus(row.review_status, m),
       FullAddress(row, MapGet(m.state_codes, row.site_state), ZipCode(row.site_zip)) >>

\* ------------------------------------------------------------------ actions
Init ==
    /\ pc = "idle"
    /\ run = 0
    /\ outcome = "none"
    /\ mappings = build_mappings(FullStatusSpec)
    /\ preseason = <<>>
    /\ updates = <<>>
    /\ df = <<>>
    /\ df_in = <<>>
    /\ token = FALSE
    /\ requests = <<>>
    /\ answers = <<>>
    /\ sites_csv = NoFile
    /\ archive = NoFile
    /\ summary = NoSummary
    /\ before = [sites |-> NoFile, archive |-> NoFile, summary |-> NoSummary]
    /\ tie_order = "input"
    /\ reqRuns = [r \in RecordIds |-> 0]
    /\ stable = [r \in RecordIds |-> TRUE]

\* a step of main() raised: the except clause re-raises and the run is over
Fail ==
    /\ pc' = "idle"
    /\ outcome' = "failed"
    /\ df' = <<>>
    /\ df_in' = <<>>
    /\ updates' = <<>>
    /\ requests' = <<>>
    /\ answers' = <<>>
    /\ token' = FALSE

\* fetch_metadata, build_mappings, fetch_from_redcap, split_preseason_and_updates
Fetch ==
    /\ pc = "idle"
    /\ run < MaxRuns
    /\ run' = run + 1
    /\ before' = Files
    /\ \/ /\ Fail
          /\ UNCHANGED <<mappings, preseason, stable>>
       \/ \E rows \in PipelineRows, ups \in PipelineUpdates :
             /\ pc' = "split"
             /\ outcome' = "none"
             /\ mappings' = build_mappings(FullStatusSpec)
             /\ preseason' = rows
             /\ updates' = ups
             /\ stable' = [r \in RecordIds |->
                   /\ stable[r]
                   /\ preseason # <<>> =>
                        Identity(rows[r], mappings') = Identity(preseason[r], mappings)]
             /\ UNCHANGED <<df, df_in, token, requests, answers>>
    /\ UNCHANGED <<sites_csv, archive, summary, tie_order, reqRuns>>

Clean ==
    /\ pc = "split"
    /\ IF CleanRaises(preseason, mappings)
       THEN Fail
       ELSE /\ pc' = "cleaned"
            /\ df' = clean_data(preseason, mappings, NowClean)
            /\ df_in' = <<>>
            /\ UNCHANGED <<outcome, updates, token, requests, answers>>
    /\ UNCHANGED <<run, mappings, preseason, sites_csv, archive, summary, before,
                   tie_order, reqRuns, stable>>

Geocode ==
    /\ pc = "cleaned"
    /\ \E tok \in BOOLEAN :
       \E ans \in [DOMAIN df -> UNION {Answers(df[i]) : i \in DOMAIN df}] :
          LET out == geocode_addresses(df, tok, sites_csv, ans)
          IN /\ \A i \in DOMAIN df :
                   ans[i] \in Answers(df[i])
                   /\ (out.requests[i] = 0 => ans[i] = AnswerRaise)
             /\ token' = tok
             /\ answers' = ans
             /\ df' = out.df
             /\ df_in' = df
             /\ requests' = out.requests
             /\ reqRuns' = [r \in RecordIds |->
                   IF \E i \in DOMAIN df : df[i].record_id = r /\ out.requests[i] > 0
                   THEN reqRuns[r] + 1 ELSE reqRuns[r]]
    /\ pc' = "geocoded"
    /\ UNCHANGED <<run, outcome, mappings, preseason, updates, sites_csv, archive,
                   summary, before, tie_order, stable>>

ApplyUpdates ==
    /\ pc = "geocoded"
    /\ IF UpdatesRaise(updates)
       THEN Fail
       ELSE /\ df' = apply_updates(df, updates, mappings, NowUpdate, tie_order)
            /\ df_in' = df
            /\ pc' = "updated"
            /\ UNCHANGED <<outcome, updates, token, requests, answers>>
    /\ UNCHANGED <<run, mappings, preseason, sites_csv, archive, summary, before,
                   tie_order, reqRuns, stable>>

Filter ==
    /\ pc = "updated"
    /\ df' = filter_accepted_only(df)
    /\ df_in' = df
    /\ pc' = "filtered"
    /\ UNCHANGED <<run, outcome, mappings, preseason, updates, token, requests,
                   answers, sites_csv, archive, summary, before, tie_order, reqRuns,
                   stable>>

Save ==
    /\ pc = "filtered"
    /\ \E failAt \in SavePoints, truncated \in BOOLEAN :
          LET new == save_files(df, NowSave, Files, failAt, truncated)
          IN /\ failAt = "none" => ~truncated
             /\ sites_csv' = new.sites
             /\ archive' = new.archive
             /\ summary' = new.summary
             /\ IF failAt = "none"
                THEN /\ pc' = "idle"
                     /\ outcome' = "complete"
                     /\ df' = <<>>
                     /\ df_in' = <<>>
                     /\ updates' = <<>>
                     /\ requests' = <<>>
                     /\ answers' = <<>>
                     /\ token' = FALSE
                ELSE Fail
    /\ UNCHANGED <<run, mappings, preseason, before, tie_order, reqRuns, stable>>

Next == Fetch \/ Clean \/ Geocode \/ ApplyUpdates \/ Filter \/ Save

Spec == Init /\ [][Next]_vars

\* ---------------------------------------------------------------------------
\* geocode_addresses on its own: every table clean_data can hand over, against
\* every snapshot an earlier run can have published.
RowIds == 1..MaxRows

GeoRowSets(addrs) ==
    {rows \in [RowIds -> {BaseRow(r, status, addr, 1, 85001, SameHoursSched,
                                  Svc(1, 0), NoClosures) :
                             r \in RowIds, status \in {1, 3}, addr \in addrs}] :
        \A r \in RowIds : rows[r].record_id = r}

AnswerSets(table) ==
    {ans \in [DOMAIN table -> UNION {Answers(table[i]) : i \in DOMAIN table}] :
        \A i \in DOMAIN table : ans[i] \in Answers(table[i])}

\* the snapshots a first run publishes
PublishedSnapshots ==
    LET m == build_mappings(FullStatusSpec)
    IN UNION { LET table == clean_data(rows, m, 1)
               IN { CsvFile(filter_accepted_only(
                        geocode_addresses(table, TRUE, NoFile, ans).df)) :
                      ans \in AnswerSets(table) } :
               rows \in GeoRowSets({"12 Elm St"}) }

GeoInit ==
    /\ pc = "cleaned"
    /\ run = 2
    /\ outcome = "none"
    /\ mappings = build_mappings(FullStatusSpec)
    /\ preseason \in GeoRowSets(Addresses)
    /\ updates = <<>>
    /\ df = clean_data(preseason, mappings, NowClean)
    /\ df_in = <<>>
    /\ token = FALSE
    /\ requests = <<>>
    /\ answers = <<>>
    /\ sites_csv \in {NoFile, TruncatedFile} \cup PublishedSnapshots
    /\ archive = sites_csv
    /\ summary = NoSummary
    /\ before = Files
    /\ tie_order = "input"
    /\ reqRuns = [r \in RecordIds |-> 0]
    /\ stable = [r \in RecordIds |-> TRUE]

SpecGeo == GeoInit /\ [][Geocode]_vars

\* ---------------------------------------------------------------------------
\* apply_updates on its own: a cleaned table and every small set of override rows
PerDaySched ==
    Sched(0, {1, 2}, NaNStr, NaNStr,
          [d \in DayIdx |-> IF d = 1 THEN "08:00" ELSE NaNStr],
          [d \in DayIdx |-> IF d = 1 THEN "17:00" ELSE NaNStr])

UpdBase ==
    [r \in RowIds |->
        IF r = 1
        THEN BaseRow(r, 3, "12 Elm St", 1, 85001, SameHoursSched, Svc(1, 0),
                     Clos(<< <<2026, 6, 1>> >>, ClosedCode, NaN, NaN, NaN, NaN))
        ELSE BaseRow(r, 3, "9 Oak Ave", 1, 85001, PerDaySched, Svc(0, 1), NoClosures)]

\* an override row carries a schedule block, service checkboxes and a closure block
Payloads ==
    { <<Sched(1, {1}, "00:30", "17:00", NoTimes, NoTimes), Svc(0, 0), NaN, <<>>>>,
      <<Sched(1, {2}, "", "", NoTimes, NoTimes), Svc(0, 0), NaN, <<>>>>,
      <<PerDaySched, Svc(0, 0), 1, <<>>>>,
      <<NoSched, Svc(0, 0), 1, << <<2026, 7, 1>> >> >>,
      <<NoSched, Svc(0, 1), NaN, <<>>>>,
      <<NoSched, Svc(0, 0), NaN, <<>>>> }

UpdateRows ==
    {Override(rid, date, p[1], p[2], p[3], p[4]) :
        rid \in {1, MaxRows + 1}, date \in {1, 2}, p \in Payloads}

UpdateSets == UNION {[1..n -> UpdateRows] : n \in 0..MaxUpdates}

UpdInit ==
    /\ pc = "geocoded"
    /\ run = 1
    /\ outcome = "none"
    /\ mappings = build_mappings(FullStatusSpec)
    /\ preseason = UpdBase
    /\ updates \in UpdateSets
    /\ df = clean_data(preseason, mappings, NowClean)
    /\ df_in = df
    /\ token = FALSE
    /\ requests = [i \in DOMAIN df |-> 0]
    /\ answers = [i \in DOMAIN df |-> AnswerRaise]
    /\ sites_csv = NoFile
    /\ archive = NoFile
    /\ summary = NoSummary
    /\ before = Files
    /\ tie_order \in TieOrders
    /\ reqRuns = [r \in RecordIds |-> 0]
    /\ stable = [r \in RecordIds |-> TRUE]

SpecUpd == UpdInit /\ [][ApplyUpdates]_vars

\* the same on a build whose sort keeps rows with equal dates in input order
UpdStableInit == UpdInit /\ tie_order = "input"

SpecUpdStable == UpdStableInit /\ [][ApplyUpdates]_vars

\* ---------------------------------------------------------------------------
\* The stages of main() run twice on the same fetched rows, against the same
\* previous snapshot, with the same credential and the same geocoder answers.
\* The second pass reads the clock of the next run.  df_in keeps the output of
\* the first pass, df is the output of the second.
Rerun ==
    /\ pc = "filtered"
    /\ run' = run + 1
    /\ LET cleaned == clean_data(preseason, mappings, 3 * run' - 2)
           geocoded == geocode_addresses(cleaned, token, sites_csv, answers).df
           final == apply_updates(geocoded, updates, mappings, 3 * run' - 1, tie_order)
       IN df' = filter_accepted_only(final)
    /\ df_in' = df
    /\ pc' = "rerun"
    /\ UNCHANGED <<outcome, mappings, preseason, updates, token, requests, answers,
                   sites_csv, archive, summary, before, tie_order, reqRuns, stable>>

TwiceRows ==
    {rows \in [RowIds -> UNION {
          { BaseRow(r, IF r = 2 THEN 1 ELSE 3, "12 Elm St", 1, 85001, sched, Svc(1, 0),
                    Clos(<< <<2026, 6, 1>> >>, ClosedCode, NaN, NaN, NaN, ClosedCode)) :
              sched \in IF r = 1 THEN {SameHoursSched, PerDaySched} ELSE {SameHoursSched} } :
          r \in RowIds }] :
        \A r \in RowIds : rows[r].record_id = r}

TwiceUpdateRows ==
    { Override(1, date, p[1], p[2], p[3], p[4]) :
        date \in {1, 2},
        p \in { <<PerDaySched, Svc(0, 0), NaN, <<>>>>,
                <<NoSched, Svc(0, 1), 1, << <<2026, 7, 1>> >> >>,
                <<NoSched, Svc(0, 0), NaN, <<>>>> } }

TwiceSnapshots ==
    {NoFile} \cup
    { CsvFile(<< [clean_data(rows, build_mappings(FullStatusSpec), 1)[1]
                    EXCEPT !.latitude = 2, !.longitude = 1, !.geocoded = TRUE] >>) :
        rows \in TwiceRows }

TwiceInit ==
    /\ pc = "split"
    /\ run = 1
    /\ outcome = "none"
    /\ mappings = build_mappings(FullStatusSpec)
    /\ preseason \in TwiceRows
    /\ updates \in UNION {[1..n -> TwiceUpdateRows] : n \in 0..MaxUpdates}
    /\ df = <<>>
    /\ df_in = <<>>
    /\ token = FALSE
    /\ requests = <<>>
    /\ answers = <<>>
    /\ sites_csv \in TwiceSnapshots
    /\ archive = sites_csv
    /\ summary = NoSummary
    /\ before = Files
    /\ tie_order \in TieOrders
    /\ reqRuns = [r \in RecordIds |-> 0]
    /\ stable = [r \in RecordIds |-> TRUE]

NextTwice == Clean \/ Geocode \/ ApplyUpdates \/ Filter \/ Rerun

SpecTwice == TwiceInit /\ [][NextTwice]_vars

\* ---------------------------------------------------------------------------
\* The end of main(): apply_updates, filter_accepted_only, save_files, on
\* tables whose records have every review status (7 is a code the schema
\* does not define, a missing code is read as 1).
PubRows ==
    {rows \in [RowIds -> { BaseRow(r, status, "12 Elm St", 1, 85001, SameHoursSched,
                                   Svc(1, 0), NoClosures) :
                             r \in RowIds, status \in {NaN, 1, 2, 3, 7} }] :
        \A r \in RowIds : rows[r].record_id = r}

PubUpdates ==
    { <<>>, <<Override(1, 1, PerDaySched, Svc(0, 1), 1, << <<2026, 7, 1>> >>)>> }

PubInit ==
    /\ pc = "geocoded"
    /\ run = 1
    /\ outcome = "none"
    /\ mappings = build_mappings(FullStatusSpec)
    /\ preseason \in PubRows
    /\ updates \in PubUpdates
    /\ df = clean_data(preseason, mappings, NowClean)
    /\ df_in = df
    /\ token = FALSE
    /\ requests = [i \in DOMAIN df |-> 0]
    /\ answers = [i \in DOMAIN df |-> AnswerRaise]
    /\ sites_csv = NoFile
    /\ archive = NoFile
    /\ summary = NoSummary
    /\ before = Files
    /\ tie_order = "input"
    /\ reqRuns = [r \in RecordIds |-> 0]
    /\ stable = [r \in RecordIds |-> TRUE]

NextPublish == ApplyUpdates \/ Filter \/ Save

SpecPublish == PubInit /\ [][NextPublish]_vars

\* ---------------------------------------------------------------------------
\* geocode_addresses followed by apply_updates, as main() calls them
OrderUpdateRows ==
    { Override(rid, 1, p[1], p[2], p[3], p[4]) :
        rid \in {1, 2},
        p \in { <<PerDaySched, Svc(0, 1), NaN, <<>>>>,
                <<NoSched, Svc(0, 0), 1, << <<2026, 7, 1>> >> >> } }

OrderSnapshots ==
    {NoFile} \cup
    { CsvFile(<< [clean_data(rows, build_mappings(FullStatusSpec), 1)[1]
                    EXCEPT !.latitude = 2, !.longitude = 1, !.geocoded = TRUE] >>) :
        rows \in GeoRowSets({"12 Elm St"}) }

OrderInit ==
    /\ pc = "cleaned"
    /\ run = 1
    /\ outcome = "none"
    /\ mappings = build_mappings(FullStatusSpec)
    /\ preseason \in GeoRowSets({"12 Elm St"})
    /\ updates \in UNION {[1..n -> OrderUpdateRows] : n \in 0..MaxUpdates}
    /\ df = clean_data(preseason, mappings, NowClean)
    /\ df_in = <<>>
    /\ token = FALSE
    /\ requests = <<>>
    /\ answers = <<>>
    /\ sites_csv \in OrderSnapshots
    /\ archive = sites_csv
    /\ summary = NoSummary
    /\ before = Files
    /\ tie_order = "input"
    /\ reqRuns = [r \in RecordIds |-> 0]
    /\ stable = [r \in RecordIds |-> TRUE]

NextOrder == Geocode \/ ApplyUpdates

SpecOrder == OrderInit /\ [][NextOrder]_vars

\* ---------------------------------------------------------------------------
\* clean_data on its own: every small set of base rows under both schemas
OtherTimes == [d \in DayIdx |-> "00:30"]

CleanSchedules ==
    { SameHoursSched, PerDaySched,
      Sched(NaN, {5}, "08:00", NaNStr, NoTimes, NoTimes),
      Sched(1, {}, "", "", NoTimes, NoTimes),
      Sched(1, {}, "08:00", "17:00", NoTimes, NoTimes),
      Sched(1, {2, 7}, "00:30", "17:00", OtherTimes, OtherTimes),
      Sched(0, {2}, NaNStr, NaNStr, NoTimes, NoTimes) }

\* closure answers: dates in closure_2 and closure_10 only, each holiday
\* field closed (2), open (1) or unanswered
ClosureCases ==
    { [ closure |-> [c \in ClosureIdx |-> IF c = 2 THEN <<2026, 8, 3>>
                                          ELSE IF c = NumClosures THEN <<2026, 6, 2>>
                                          ELSE NaNDate],
        memorial_day |-> 1, juneteenth |-> ClosedCode, independence_day |-> 1,
        july_4 |-> ClosedCode, labor_day |-> ClosedCode ],
      Clos(<<>>, NaN, NaN, ClosedCode, ClosedCode, 1),
      Clos(<< <<2026, 7, 1>> >>, ClosedCode, NaN, ClosedCode, NaN, NaN) }

CleanRowsOf(r) ==
    { BaseRow(r, 3, "12 Elm St", 1, 85001, sched, Svc(1, 0), NoClosures) :
        sched \in CleanSchedules } \cup
    { BaseRow(r, 3, "12 Elm St", 1, 85001, SameHoursSched, Svc(1, 0), clos) :
        clos \in ClosureCases } \cup
    { BaseRow(r, status, "12 Elm St", 1, 85001, SameHoursSched, Svc(0, 1), NoClosures) :
        status \in {NaN, 1, 2, 7} } \cup
    { BaseRow(r, 3, "9 Oak Ave", state, zip, SameHoursSched, Svc(NaN, 1),
              Clos(<< <<2026, 7, 1>> >>, ClosedCode, 1, NaN, NaN, NaN)) :
        state \in {1, 4, NaN}, zip \in {8501, NaN, Unparseable} }

CleanRowSets ==
    {rows \in [RowIds -> UNION {CleanRowsOf(r) : r \in RowIds}] :
        \A r \in RowIds : rows[r] \in CleanRowsOf(r)}

CleanInit ==
    /\ pc = "split"
    /\ run = 1
    /\ outcome = "none"
    /\ mappings \in {build_mappings(sp) : sp \in StatusSpecs}
    /\ preseason \in CleanRowSets
    /\ updates = <<>>
    /\ df = <<>>
    /\ df_in = <<>>
    /\ token = FALSE
    /\ requests = <<>>
    /\ answers = <<>>
    /\ sites_csv = NoFile
    /\ archive = NoFile
    /\ summary = NoSummary
    /\ before = Files
    /\ tie_order = "input"
    /\ reqRuns = [r \in RecordIds |-> 0]
    /\ stable = [r \in RecordIds |-> TRUE]

SpecClean == CleanInit /\ [][Clean]_vars

\* ===========================================================================
\* Properties
\* ===========================================================================

\* the rows of the previous snapshot, as far as a run can read them
SnapshotRows == IF sites_csv.exists /\ sites_csv.parses THEN sites_csv.rows ELSE <<>>

\* the complete coordinate pairs the previous snapshot holds for a record_id
SnapshotPairs(rid) ==
    { <<SnapshotRows[i].latitude, SnapshotRows[i].longitude>> :
        i \in {j \in DOMAIN SnapshotRows :
                 /\ SnapshotRows[j].record_id = rid
                 /\ SnapshotRows[j].latitude # NaN
                 /\ SnapshotRows[j].longitude # NaN} }

\* the previous snapshot gives the run a cache entry for a record_id
HasCacheEntry(rid) ==
    \E i \in DOMAIN SnapshotRows :
        SnapshotRows[i].record_id = rid /\ SnapshotRows[i].latitude # NaN

\* C1: over any sequence of runs in which a site's review_status and address
\* stay the same, the geocoder is requested for its record_id in at most one
\* run, whatever the credential and the geocoder's answers.
C1_RequestedInAtMostOneRun ==
    \A r \in RecordIds : stable[r] => reqRuns[r] <= 1

\* C2: after geocode_addresses, a site whose record_id has a complete
\* coordinate pair in the previous snapshot was not requested and carries
\* exactly that pair.
C2_CachedPairCopied ==
    pc = "geocoded" =>
        \A i \in DOMAIN df :
            SnapshotPairs(df[i].record_id) # {} =>
                /\ requests[i] = 0
                /\ <<df[i].latitude, df[i].longitude>> \in SnapshotPairs(df[i].record_id)

\* C3: within one run of geocode_addresses a request is issued for a site
\* only if it has no cache entry and is Accepted, at most once; a site with no
\* cache entry and another status ends with no coordinates and geocoded false.
C3_RequestOnlyNewAccepted ==
    pc = "geocoded" =>
        \A i \in DOMAIN df :
            /\ requests[i] <= 1
            /\ requests[i] > 0 =>
                  ~HasCacheEntry(df[i].record_id) /\ df[i].review_status = "Accepted"
            /\ (~HasCacheEntry(df[i].record_id) /\ df[i].review_status # "Accepted") =>
                  /\ df[i].latitude = NaN
                  /\ df[i].longitude = NaN
                  /\ ~df[i].geocoded

\* a run that requested one site, got coordinates for it, and skipped an
\* uncached site that is not Accepted
C3_Witness ==
    /\ pc = "geocoded"
    /\ token
    /\ \E i \in DOMAIN df : requests[i] = 1 /\ df[i].geocoded
    /\ \E j \in DOMAIN df :
          /\ ~HasCacheEntry(df[j].record_id)
          /\ df[j].review_status # "Accepted"
          /\ requests[j] = 0

\* C7: after geocode_addresses, geocoded is true for a site if and only if
\* both its latitude and its longitude are present.
C7_GeocodedIffBothPresent ==
    pc = "geocoded" =>
        \A i \in DOMAIN df :
            df[i].geocoded <=> (df[i].latitude # NaN /\ df[i].longitude # NaN)

\* C8: a run that fails leaves sites.csv, the dated archive and summary.txt
\* exactly as they were when it started.
C8_FailedRunWritesNothing ==
    (pc = "idle" /\ outcome = "failed") => Files = before

\* the override rows of a record_id, and the one the reconciler is to apply:
\* the maximum update_date, the latest in input order among equal dates
OverridesOf(rid) == {k \in DOMAIN updates : updates[k].record_id = rid}

SelectedOverride(rid) ==
    updates[CHOOSE k \in OverridesOf(rid) :
               \A j \in OverridesOf(rid) :
                  \/ updates[j].update_date < updates[k].update_date
                  \/ updates[j].update_date = updates[k].update_date /\ j <= k]

ScheduleFields(s) ==
    <<s.same_hours_everyday, s.opening_time, s.closing_time, s.full_schedule,
      s.days_open, s.hours>>
ServiceFields(s) == <<s.has, s.services_offered>>
ClosureFields(s) == s.special_closure_dates

\* C4: for a record_id with several override rows, the final record is the
\* base record with the row of maximum update_date (last in input order among
\* equals) applied, and nothing of any other override row.
C4_OnlyLatestOverrideApplied ==
    pc = "updated" =>
        \A i \in DOMAIN df :
            Cardinality(OverridesOf(df_in[i].record_id)) >= 2 =>
                df[i] = ApplyUpdate(df_in[i], SelectedOverride(df_in[i].record_id),
                                    mappings, NowUpdate)

\* C5: after apply_updates, a site with a changed schedule, service-flag or
\* closure field has data_source 'in-season update' and a refreshed
\* last_updated; a site still 'preseason' with its original last_updated has
\* no changed field.
C5_ChangeIsAttributed ==
    pc = "updated" =>
        \A i \in DOMAIN df :
            /\ ( \/ ScheduleFields(df[i]) # ScheduleFields(df_in[i])
                 \/ df[i].has # df_in[i].has
                 \/ ClosureFields(df[i]) # ClosureFields(df_in[i]) ) =>
                  /\ df[i].data_source = "in-season update"
                  /\ df[i].last_updated = NowUpdate
            /\ ( /\ df[i].data_source = "preseason"
                 /\ df[i].last_updated = df_in[i].last_updated ) =>
                  df[i] = df_in[i]

\* C6: a field group the selected override carries no value for is left on
\* the site record exactly as it was, whatever happens to the other groups.
C6_AbsentGroupUntouched ==
    pc = "updated" =>
        \A i \in DOMAIN df :
            OverridesOf(df_in[i].record_id) # {} =>
                LET u == SelectedOverride(df_in[i].record_id)
                IN /\ u.same_hours_everyday_update = NaN =>
                         ScheduleFields(df[i]) = ScheduleFields(df_in[i])
                   /\ (\A c \in DOMAIN u.svc_update : u.svc_update[c] # 1) =>
                         ServiceFields(df[i]) = ServiceFields(df_in[i])
                   /\ u.other_closures_updates = NaN =>
                         ClosureFields(df[i]) = ClosureFields(df_in[i])

\* clean_data has run on the base rows (returned or raised)
CleanActed == pc = "cleaned" \/ (pc = "idle" /\ outcome = "failed")

MappedStatusCodes == {mappings.review_status[k][1] : k \in DOMAIN mappings.review_status}

\* C9: a base row whose review_status code is missing or is not a key of the
\* review_status mapping is emitted with review_status 'Pending'.
C9_UnmappedStatusIsPending ==
    pc = "cleaned" =>
        /\ Len(df) = Len(preseason)
        /\ \A i \in DOMAIN preseason :
              ( \/ preseason[i].review_status = NaN
                \/ preseason[i].review_status \notin MappedStatusCodes ) =>
                  df[i].review_status = "Pending"

\* C10: a base row whose site_zip or site_state is missing or unparseable
\* does not abort clean_data: every base row still yields its site record.
C10_BadZipDoesNotAbort ==
    CleanActed =>
        ( (\E i \in DOMAIN preseason :
              \/ ~astype_int_ok(preseason[i].site_zip)
              \/ ~astype_int_ok(preseason[i].site_state)) =>
            /\ pc = "cleaned"
            /\ Len(df) = Len(preseason)
            /\ \A i \in DOMAIN preseason : df[i].record_id = preseason[i].record_id )

\* the labels of the service checkbox group
ServiceLabels == {mappings.services_offered[k][2] : k \in DOMAIN mappings.services_offered}

\* C11: after clean_data and after apply_updates, for every site record and
\* every service label, the flag has_<label> is true if and only if the label
\* is in the site's services_offered list.
C11_FlagIffListed ==
    pc \in {"cleaned", "updated"} =>
        \A i \in DOMAIN df :
            \A label \in ServiceLabels :
                df[i].has[clean_field(label)] <=> label \in Range(df[i].services_offered)

\* the request for a site failed: it raised, found nothing, or its response
\* does not carry a pair of numbers as coordinates
FailedAnswer(a) ==
    \/ a.kind \in {"raise", "empty"}
    \/ a.kind = "features" /\ (Len(a.coords) < 2 \/ \E k \in DOMAIN a.coords : a.coords[k] = NaN)

\* C12: after geocode_addresses, a requested site whose request failed has no
\* latitude, no longitude and geocoded false, and every other requested site
\* whose request succeeded carries the coordinates of its answer.
C12_FailureIsolated ==
    pc = "geocoded" =>
        /\ Len(df) = Len(df_in)
        /\ \A i \in DOMAIN df :
              /\ (requests[i] = 1 /\ FailedAnswer(answers[i])) =>
                    /\ df[i].latitude = NaN
                    /\ df[i].longitude = NaN
                    /\ ~df[i].geocoded
              /\ (requests[i] = 1 /\ ~FailedAnswer(answers[i])) =>
                    /\ df[i].longitude = answers[i].coords[1]
                    /\ df[i].latitude = answers[i].coords[2]
                    /\ df[i].geocoded

\* the override rows whose record_id matches no base site record
OrphanRows ==
    {k \in DOMAIN updates : \A i \in DOMAIN df_in : df_in[i].record_id # updates[k].record_id}

\* C13: when apply_updates has run on override rows of which some match no
\* base site record, it returned, the table has the same site records in the
\* same order, and every site record that no override row targets is unchanged.
C13_OrphanOverrideSkipped ==
    (pc \in {"updated", "idle"} /\ OrphanRows # {}) =>
        /\ pc = "updated"
        /\ Len(df) = Len(df_in)
        /\ \A i \in DOMAIN df :
              /\ df[i].record_id = df_in[i].record_id
              /\ OverridesOf(df_in[i].record_id) = {} => df[i] = df_in[i]

\* an orphan override next to an override that changed its site, and a site
\* no override targets
C13_Witness ==
    /\ pc = "updated"
    /\ OrphanRows # {}
    /\ \E i \in DOMAIN df : OverridesOf(df_in[i].record_id) # {} /\ df[i] # df_in[i]
    /\ \E j \in DOMAIN df : OverridesOf(df_in[j].record_id) = {}

\* a site record without its timestamp
WithoutClock(site) == [site EXCEPT !.last_updated = 0]

\* C14: the stages run a second time on the same base rows, override rows
\* and previous snapshot, with the same geocoder answers, give the same rows
\* as the first time in every field except last_updated.
C14_RerunDiffersOnlyInClock ==
    pc = "rerun" =>
        /\ Len(df) = Len(df_in)
        /\ \A i \in DOMAIN df : WithoutClock(df[i]) = WithoutClock(df_in[i])

\* a second pass over a site that was geocoded by request and changed by an
\* override, stamped with another time than in the first pass
C14_Witness ==
    /\ pc = "rerun"
    /\ \E i \in DOMAIN df :
          /\ df[i].last_updated # df_in[i].last_updated
          /\ df[i].data_source = "in-season update"
          /\ df[i].geocoded
          /\ \E j \in DOMAIN requests : requests[j] = 1

\* C15: when save_files writes the snapshot, its rows are exactly the
\* reconciled site records with review_status 'Accepted': each of them once,
\* and no record with another status.
C15_SnapshotIsAcceptedOnly ==
    [][ (pc = "filtered" /\ sites_csv' # sites_csv /\ sites_csv'.parses) =>
           LET written == sites_csv'.rows
           IN /\ \A i \in DOMAIN df_in :
                    df_in[i].review_status = "Accepted" =>
                       Cardinality({k \in DOMAIN written : written[k] = df_in[i]}) = 1
              /\ \A k \in DOMAIN written :
                    /\ written[k].review_status = "Accepted"
                    /\ \E i \in DOMAIN df_in : df_in[i] = written[k] ]_vars

\* a completed run that published one record out of a table that also held a
\* record whose status code the schema does not define
C15_Witness ==
    /\ pc = "idle"
    /\ outcome = "complete"
    /\ Len(sites_csv.rows) = 1
    /\ \E i \in DOMAIN preseason : preseason[i].review_status = 3
    /\ \E j \in DOMAIN preseason : preseason[j].review_status \notin MappedStatusCodes \cup {NaN}

\* a time cell that holds a value
Populated(v) == v # NaNStr /\ v # ""

\* some weekday is an open day and has populated hours, for a schedule block
\* with the same-hours answer same, the day checkboxes dow, the standard pair
\* sst, sct and the per-day cells start, close
HasOpenPopulatedDay(same, dow, sst, sct, start, close) ==
    IF same = 1
    THEN (\E d \in DayIdx : dow[d] = 1) /\ Populated(sst) /\ Populated(sct)
    ELSE \E d \in DayIdx : dow[d] = 1 /\ Populated(start[d]) /\ Populated(close[d])

\* C16: full_schedule of a site record is empty if and only if no weekday is
\* both an open day and has populated hours: after clean_data for the base
\* row's schedule, after apply_updates for the schedule block of the site's
\* single override row.
C16_ScheduleEmptyIffNoOpenDay ==
    /\ pc = "cleaned" =>
          \A i \in DOMAIN df :
              preseason[i].same_hours_everyday \in {0, 1} =>
                 ( df[i].full_schedule = <<>> <=>
                     ~HasOpenPopulatedDay(preseason[i].same_hours_everyday, preseason[i].dow,
                                          preseason[i].standard_start_time,
                                          preseason[i].standard_close_time,
                                          preseason[i].start, preseason[i].close) )
    /\ pc = "updated" =>
          \A i \in DOMAIN df :
              \A k \in OverridesOf(df_in[i].record_id) :
                  ( /\ OverridesOf(df_in[i].record_id) = {k}
                    /\ updates[k].same_hours_everyday_update \in {0, 1} ) =>
                     ( df[i].full_schedule = <<>> <=>
                         ~HasOpenPopulatedDay(updates[k].same_hours_everyday_update,
                                              updates[k].dow_update,
                                              updates[k].standard_start_time_update,
                                              updates[k].standard_close_time_update,
                                              updates[k].start_update,
                                              updates[k].close_update) )

\* the 12-hour display of the times the base rows use
Display12(t) ==
    CASE t = "08:00" -> [h |-> 8, m |-> 0, ap |-> "am"]
      [] t = "17:00" -> [h |-> 5, m |-> 0, ap |-> "pm"]
      [] t = "00:30" -> [h |-> 12, m |-> 30, ap |-> "am"]

\* C17: clean_data gives a base row with same_hours_everyday true and a
\* populated pair S, E: "S - E" as <day>_hours of every open day, an empty
\* <day>_hours for every other day, and as full_schedule the open days
\* followed by the 12-hour display of S and E, whatever the per-day cells hold.
C17_SameHoursSchedule ==
    pc = "cleaned" =>
        \A i \in DOMAIN df :
            LET row == preseason[i]
                S == row.standard_start_time
                E == row.standard_close_time
            IN (row.same_hours_everyday = 1 /\ Populated(S) /\ Populated(E)) =>
                  /\ \A d \in DayIdx :
                        df[i].hours[d] = IF row.dow[d] = 1 THEN <<S, E>> ELSE <<>>
                  /\ df[i].full_schedule =
                        << [ days |-> SeqFilter(day_names, {d \in DayIdx : row.dow[d] = 1}),
                             open |-> Display12(S),
                             close |-> Display12(E) ] >>

\* a cleaned row with the same hours on Tuesday and Sunday whose per-day
\* cells hold other times
C17_Witness ==
    /\ pc = "cleaned"
    /\ \E i \in DOMAIN df :
          /\ preseason[i].same_hours_everyday = 1
          /\ preseason[i].standard_start_time = "00:30"
          /\ preseason[i].start[2] = "00:30"
          /\ df[i].hours[2] = <<"00:30", "17:00">>
          /\ df[i].hours[1] = <<>>

\* the closure_N dates of a base row that are entered, in index order
EnteredDates(row) ==
    SeqFilter([c \in ClosureIdx |-> row.closure[c]],
              {c \in ClosureIdx : row.closure[c] # NaNDate})

\* C18: special_closure_dates of a cleaned base row is its entered closure
\* dates in index order, followed by the 2026 dates of the holidays marked
\* closed (code 2): Memorial Day May 25, Juneteenth June 19, Independence Day
\* July 4 (field independence_day or july_4), Labor Day September 7, in this
\* order; a holiday field with another value or none adds no date.
C18_ClosureAggregation ==
    pc = "cleaned" =>
        \A i \in DOMAIN df :
            LET row == preseason[i]
            IN df[i].special_closure_dates =
                  EnteredDates(row)
                  \o (IF row.memorial_day = 2 THEN << <<2026, 5, 25>> >> ELSE <<>>)
                  \o (IF row.juneteenth = 2 THEN << <<2026, 6, 19>> >> ELSE <<>>)
                  \o (IF row.independence_day = 2 \/ row.july_4 = 2
                      THEN << <<2026, 7, 4>> >> ELSE <<>>)
                  \o (IF row.labor_day = 2 THEN << <<2026, 9, 7>> >> ELSE <<>>)

\* a cleaned row with two entered dates, Memorial Day answered open, and
\* Juneteenth, Independence Day and Labor Day closed
C18_Witness ==
    /\ pc = "cleaned"
    /\ \E i \in DOMAIN df :
          /\ preseason[i].memorial_day = 1
          /\ df[i].special_closure_dates =
                << <<2026, 8, 3>>, <<2026, 6, 2>>, <<2026, 6, 19>>, <<2026, 7, 4>>,
                   <<2026, 9, 7>> >>
    /\ \E j \in DOMAIN df :
          df[j].special_closure_dates = << <<2026, 7, 1>>, <<2026, 5, 25>>, <<2026, 7, 4>> >>

\* the fields of a site record that identify and locate it
LocationFields(site) ==
    <<site.record_id, site.address, site.city, site.state, site.zip_code, site.full_address,
      site.review_status, site.latitude, site.longitude, site.geocoded>>

\* C19: apply_updates keeps the records of the table and their record_id,
\* address fields, full_address, review_status, latitude, longitude and
\* geocoded; and the table main() gets by geocoding first and applying the
\* overrides afterwards equals the table it would get by applying the
\* overrides to the cleaned table first and geocoding afterwards.
C19_UpdatesKeepLocation ==
    pc = "updated" =>
        /\ Len(df) = Len(df_in)
        /\ \A i \in DOMAIN df : LocationFields(df[i]) = LocationFields(df_in[i])
        /\ df = geocode_addresses(
                    apply_updates(clean_data(preseason, mappings, NowClean), updates,
                                  mappings, NowUpdate, tie_order),
                    token, sites_csv, answers).df

\* an override changed a site that the run before had geocoded by request
C19_Witness ==
    /\ pc = "updated"
    /\ \E i \in DOMAIN df :
          /\ requests[i] = 1
          /\ df[i].geocoded
          /\ df[i].data_source = "in-season update"
          /\ df[i] # df_in[i]

\* C20: in clean_data's schedule loop every schedule list has one entry per
\* base row processed so far, after each row and on every branch.
C20_ScheduleListsAligned ==
    CleanActed =>
        \A n \in 0..Len(preseason) :
            ListsAligned(ScheduleLists(SubSeq(preseason, 1, n)), n)

====
